---- MODULE Spec2Model ----
(***************************************************************************)
(* Lead intake handler: src/app/api/lead/route.ts and the two other POST   *)
(* handlers of the repository, src/unnamed/part_000 and part_001, which    *)
(* write to the same sheet and post to the same webhook.                   *)
(*                                                                         *)
(* POST parses a JSON body, validates that an email or a phone is there,   *)
(* appends the phone to a Google sheet (savePhoneToGoogleSheets), posts    *)
(* the submission to a webhook and answers the caller.  Every await of a   *)
(* handler is a point where other requests run, so a request is a small    *)
(* process:  idle -> [awaitGet ->] awaitAppend -> awaitSave -> awaitFetch  *)
(* -> awaitText -> done.                                                   *)
(*                                                                         *)
(* JavaScript values are records [t, v]: t is the type tag and v the       *)
(* characters of a string, the text of a number or boolean, the elements   *)
(* of an array or the members [key, val] of an object, as JSON gives them. *)
(* A character is a one-character string; a                                *)
(* character that a TLA+ string cannot hold is written as its escape,      *)
(* "\\uxxxx" in lower case (the no-break space is "\\u00a0").              *)
(***************************************************************************)
EXTENDS Integers, Sequences, FiniteSets

\* ------------------------------------------------------------------ bounds
MaxRequests == 2
MaxEmailLen == 5
MaxPhoneLen == 2
MaxClock == 1

\* ------------------------------------------------------- JavaScript values
Undefined == [t |-> "undefined", v |-> <<>>]
Null == [t |-> "null", v |-> <<>>]
Str(s) == [t |-> "string", v |-> s]
Num(s) == [t |-> "number", v |-> s]

True == [t |-> "boolean", v |-> <<"t", "r", "u", "e">>]
False == [t |-> "boolean", v |-> <<"f", "a", "l", "s", "e">>]
Arr(elements) == [t |-> "array", v |-> elements]
JsonObject(members) == [t |-> "object", v |-> members]

\* ------------------------------------------------------------------ numbers
\* A number is kept as its JSON text  -?digits(.digits)?([eE][+-]?digits)?
\* and stands for the double nearest to it.
DecimalDigits == <<"0", "1", "2", "3", "4", "5", "6", "7", "8", "9">>
DigitValue(c) == (CHOOSE k \in 1..10 : DecimalDigits[k] = c) - 1

\* where the exponent part starts (one past the end when there is none)
ExponentAt(v) ==
  IF \E k \in 1..Len(v) : v[k] \in {"e", "E"}
  THEN CHOOSE k \in 1..Len(v) : v[k] \in {"e", "E"}
  ELSE Len(v) + 1

\* the text between the sign and the exponent
Mantissa(v) == SubSeq(v, IF v[1] = "-" THEN 2 ELSE 1, ExponentAt(v) - 1)

\* the number of digits before the decimal point
IntegerLength(m) ==
  IF \E k \in 1..Len(m) : m[k] = "."
  THEN (CHOOSE k \in 1..Len(m) : m[k] = ".") - 1
  ELSE Len(m)

MantissaDigits(m) == SelectSeq(m, LAMBDA c : c # ".")

\* the number of zeros d starts with
LeadingZeros(d) ==
  IF \A k \in 1..Len(d) : d[k] = "0" THEN Len(d)
  ELSE (CHOOSE k \in 1..Len(d) : d[k] # "0" /\ \A j \in 1..(k - 1) : d[j] = "0") - 1

\* d from its first to its last digit that is not 0
Significant(d) ==
  IF \A k \in 1..Len(d) : d[k] = "0" THEN <<>>
  ELSE SubSeq(d, LeadingZeros(d) + 1,
              CHOOSE k \in 1..Len(d) : d[k] # "0" /\ \A j \in (k + 1)..Len(d) : d[j] = "0")

\* the value of a run of digits
RECURSIVE DigitsValue(_)
DigitsValue(d) ==
  IF d = <<>> THEN 0 ELSE 10 * DigitsValue(SubSeq(d, 1, Len(d) - 1)) + DigitValue(d[Len(d)])

\* the value of an exponent's digits; past nine digits every exponent is
\* beyond the range of a double, so it is held at 10^9
ExponentMagnitude(d) ==
  IF Len(d) - LeadingZeros(d) > 9 THEN 1000000000
  ELSE DigitsValue(SubSeq(d, LeadingZeros(d) + 1, Len(d)))

\* the exponent written after e or E (0 when there is none)
WrittenExponent(x) ==
  IF x = <<>> THEN 0
  ELSE IF x[1] = "-" THEN 0 - ExponentMagnitude(Tail(x))
  ELSE IF x[1] = "+" THEN ExponentMagnitude(Tail(x))
  ELSE ExponentMagnitude(x)

\* n such that the number is 0.d1d2... * 10^n, d1d2... its significant digits
DecimalExponent(v) ==
  IntegerLength(Mantissa(v)) - LeadingZeros(MantissaDigits(Mantissa(v)))
  + WrittenExponent(SubSeq(v, ExponentAt(v) + 1, Len(v)))

SignificantDigits(v) == Significant(MantissaDigits(Mantissa(v)))

\* 2^-1075, half the least positive double, is 0.d1d2... * 10^-323 with
\* these digits (those of 5^1075): a number of at most this magnitude
\* rounds to 0
HalfLeastDoubleDigits ==
  <<
    "2", "4", "7", "0", "3", "2", "8", "2", "2", "9", "2", "0", "6", "2", "3", "2",
    "7", "2", "0", "8", "8", "2", "8", "4", "3", "9", "6", "4", "3", "4", "1", "1",
    "0", "6", "8", "6", "1", "8", "2", "5", "2", "9", "9", "0", "1", "3", "0", "7",
    "1", "6", "2", "3", "8", "2", "2", "1", "2", "7", "9", "2", "8", "4", "1", "2",
    "5", "0", "3", "3", "7", "7", "5", "3", "6", "3", "5", "1", "0", "4", "3", "7",
    "5", "9", "3", "2", "6", "4", "9", "9", "1", "8", "1", "8", "0", "8", "1", "7",
    "9", "9", "6", "1", "8", "9", "8", "9", "8", "2", "8", "2", "3", "4", "7", "7",
    "2", "2", "8", "5", "8", "8", "6", "5", "4", "6", "3", "3", "2", "8", "3", "5",
    "5", "1", "7", "7", "9", "6", "9", "8", "9", "8", "1", "9", "9", "3", "8", "7",
    "3", "9", "8", "0", "0", "5", "3", "9", "0", "9", "3", "9", "0", "6", "3", "1",
    "5", "0", "3", "5", "6", "5", "9", "5", "1", "5", "5", "7", "0", "2", "2", "6",
    "3", "9", "2", "2", "9", "0", "8", "5", "8", "3", "9", "2", "4", "4", "9", "1",
    "0", "5", "1", "8", "4", "4", "3", "5", "9", "3", "1", "8", "0", "2", "8", "4",
    "9", "9", "3", "6", "5", "3", "6", "1", "5", "2", "5", "0", "0", "3", "1", "9",
    "3", "7", "0", "4", "5", "7", "6", "7", "8", "2", "4", "9", "2", "1", "9", "3",
    "6", "5", "6", "2", "3", "6", "6", "9", "8", "6", "3", "6", "5", "8", "4", "8",
    "0", "7", "5", "7", "0", "0", "1", "5", "8", "5", "7", "6", "9", "2", "6", "9",
    "9", "0", "3", "7", "0", "6", "3", "1", "1", "9", "2", "8", "2", "7", "9", "5",
    "5", "8", "5", "5", "1", "3", "3", "2", "9", "2", "7", "8", "3", "4", "3", "3",
    "8", "4", "0", "9", "3", "5", "1", "9", "7", "8", "0", "1", "5", "5", "3", "1",
    "2", "4", "6", "5", "9", "7", "2", "6", "3", "5", "7", "9", "5", "7", "4", "6",
    "2", "2", "7", "6", "6", "4", "6", "5", "2", "7", "2", "8", "2", "7", "2", "2",
    "0", "0", "5", "6", "3", "7", "4", "0", "0", "6", "4", "8", "5", "4", "9", "9",
    "9", "7", "7", "0", "9", "6", "5", "9", "9", "4", "7", "0", "4", "5", "4", "0",
    "2", "0", "8", "2", "8", "1", "6", "6", "2", "2", "6", "2", "3", "7", "8", "5",
    "7", "3", "9", "3", "4", "5", "0", "7", "3", "6", "3", "3", "9", "0", "0", "7",
    "9", "6", "7", "7", "6", "1", "9", "3", "0", "5", "7", "7", "5", "0", "6", "7",
    "4", "0", "1", "7", "6", "3", "2", "4", "6", "7", "3", "6", "0", "0", "9", "6",
    "8", "9", "5", "1", "3", "4", "0", "5", "3", "5", "5", "3", "7", "4", "5", "8",
    "5", "1", "6", "6", "6", "1", "1", "3", "4", "2", "2", "3", "7", "6", "6", "6",
    "7", "8", "6", "0", "4", "1", "6", "2", "1", "5", "9", "6", "8", "0", "4", "6",
    "1", "9", "1", "4", "4", "6", "7", "2", "9", "1", "8", "4", "0", "3", "0", "0",
    "5", "3", "0", "0", "5", "7", "5", "3", "0", "8", "4", "9", "0", "4", "8", "7",
    "6", "5", "3", "9", "1", "7", "1", "1", "3", "8", "6", "5", "9", "1", "6", "4",
    "6", "2", "3", "9", "5", "2", "4", "9", "1", "2", "6", "2", "3", "6", "5", "3",
    "8", "8", "1", "8", "7", "9", "6", "3", "6", "2", "3", "9", "3", "7", "3", "2",
    "8", "0", "4", "2", "3", "8", "9", "1", "0", "1", "8", "6", "7", "2", "3", "4",
    "8", "4", "9", "7", "6", "6", "8", "2", "3", "5", "0", "8", "9", "8", "6", "3",
    "3", "8", "8", "5", "8", "7", "9", "2", "5", "6", "2", "8", "3", "0", "2", "7",
    "5", "5", "9", "9", "5", "6", "5", "7", "5", "2", "4", "4", "5", "5", "5", "0",
    "7", "2", "5", "5", "1", "8", "9", "3", "1", "3", "6", "9", "0", "8", "3", "6",
    "2", "5", "4", "7", "7", "9", "1", "8", "6", "9", "4", "8", "6", "6", "7", "9",
    "9", "4", "9", "6", "8", "3", "2", "4", "0", "4", "9", "7", "0", "5", "8", "2",
    "1", "0", "2", "8", "5", "1", "3", "1", "8", "5", "4", "5", "1", "3", "9", "6",
    "2", "1", "3", "8", "3", "7", "7", "2", "2", "8", "2", "6", "1", "4", "5", "4",
    "3", "7", "6", "9", "3", "4", "1", "2", "5", "3", "2", "0", "9", "8", "5", "9",
    "1", "3", "2", "7", "6", "6", "7", "2", "3", "6", "3", "2", "8", "1", "2", "5" >>

\* 0.a <= 0.b, for runs of digits that do not end in 0
FractionAtMost(a, b) ==
  IF \E k \in 1..Len(a) : k <= Len(b) /\ a[k] # b[k]
  THEN LET k == CHOOSE i \in 1..Len(a) :
                  i <= Len(b) /\ a[i] # b[i] /\ \A j \in 1..(i - 1) : a[j] = b[j]
       IN DigitValue(a[k]) < DigitValue(b[k])
  ELSE Len(a) <= Len(b)

\* the double nearest to the number is 0 (or -0)
IsZero(v) ==
  \/ SignificantDigits(v) = <<>>
  \/ DecimalExponent(v) < 0 - 323
  \/ /\ DecimalExponent(v) = 0 - 323
     /\ FractionAtMost(SignificantDigits(v), HalfLeastDoubleDigits)

\* 2^1024 - 2^970, half way from the greatest double to 2^1024, is
\* 0.d1d2... * 10^309 with these digits: a number of at least this magnitude
\* rounds to Infinity
HalfPastGreatestDoubleDigits ==
  <<
    "1", "7", "9", "7", "6", "9", "3", "1", "3", "4", "8", "6", "2", "3", "1", "5",
    "8", "0", "7", "9", "3", "7", "2", "8", "9", "7", "1", "4", "0", "5", "3", "0",
    "3", "4", "1", "5", "0", "7", "9", "9", "3", "4", "1", "3", "2", "7", "1", "0",
    "0", "3", "7", "8", "2", "6", "9", "3", "6", "1", "7", "3", "7", "7", "8", "9",
    "8", "0", "4", "4", "4", "9", "6", "8", "2", "9", "2", "7", "6", "4", "7", "5",
    "0", "9", "4", "6", "6", "4", "9", "0", "1", "7", "9", "7", "7", "5", "8", "7",
    "2", "0", "7", "0", "9", "6", "3", "3", "0", "2", "8", "6", "4", "1", "6", "6",
    "9", "2", "8", "8", "7", "9", "1", "0", "9", "4", "6", "5", "5", "5", "5", "4",
    "7", "8", "5", "1", "9", "4", "0", "4", "0", "2", "6", "3", "0", "6", "5", "7",
    "4", "8", "8", "6", "7", "1", "5", "0", "5", "8", "2", "0", "6", "8", "1", "9",
    "0", "8", "9", "0", "2", "0", "0", "0", "7", "0", "8", "3", "8", "3", "6", "7",
    "6", "2", "7", "3", "8", "5", "4", "8", "4", "5", "8", "1", "7", "7", "1", "1",
    "5", "3", "1", "7", "6", "4", "4", "7", "5", "7", "3", "0", "2", "7", "0", "0",
    "6", "9", "8", "5", "5", "5", "7", "1", "3", "6", "6", "9", "5", "9", "6", "2",
    "2", "8", "4", "2", "9", "1", "4", "8", "1", "9", "8", "6", "0", "8", "3", "4",
    "9", "3", "6", "4", "7", "5", "2", "9", "2", "7", "1", "9", "0", "7", "4", "1",
    "6", "8", "4", "4", "4", "3", "6", "5", "5", "1", "0", "7", "0", "4", "3", "4",
    "2", "7", "1", "1", "5", "5", "9", "6", "9", "9", "5", "0", "8", "0", "9", "3",
    "0", "4", "2", "8", "8", "0", "1", "7", "7", "9", "0", "4", "1", "7", "4", "4",
    "9", "7", "7", "9", "2" >>

\* the double nearest to the number is Infinity (or -Infinity)
IsInfinite(v) ==
  /\ SignificantDigits(v) # <<>>
  /\ \/ DecimalExponent(v) > 309
     \/ /\ DecimalExponent(v) = 309
        /\ \/ SignificantDigits(v) = HalfPastGreatestDoubleDigits
           \/ ~FractionAtMost(SignificantDigits(v), HalfPastGreatestDoubleDigits)

\* the digits of a natural number
RECURSIVE NaturalToString(_)
NaturalToString(n) ==
  IF n < 10 THEN <<DecimalDigits[n + 1]>>
  ELSE NaturalToString(n \div 10) \o <<DecimalDigits[(n % 10) + 1]>>

\* Number::toString of the positive number 0.d * 10^n, d its shortest digits
FormatNumber(d, n) ==
  IF Len(d) <= n /\ n <= 21 THEN d \o [k \in 1..(n - Len(d)) |-> "0"]
  ELSE IF 0 < n /\ n <= 21 THEN SubSeq(d, 1, n) \o <<".">> \o SubSeq(d, n + 1, Len(d))
  ELSE IF 0 - 6 < n /\ n <= 0 THEN <<"0", ".">> \o [k \in 1..(0 - n) |-> "0"] \o d
  ELSE (IF Len(d) = 1 THEN d ELSE <<d[1], ".">> \o Tail(d))
       \o (IF n - 1 > 0 THEN <<"e", "+">> \o NaturalToString(n - 1)
           ELSE <<"e", "-">> \o NaturalToString(1 - n))

\* ---------------------------------------------- natural numbers of any size
\* A double has a 53-bit mantissa and a scale from 2^-1074 to 2^971, so the
\* arithmetic of Number::toString is done on naturals held as their digits
\* in base 10^9, least significant first, with no 0 at the top (0 is the
\* empty sequence).
BigBase == 1000000000

BigLimb(a, i) == IF 1 <= i /\ i <= Len(a) THEN a[i] ELSE 0

BigTrim(a) ==
  IF \A i \in 1..Len(a) : a[i] = 0 THEN <<>>
  ELSE SubSeq(a, 1, CHOOSE i \in 1..Len(a) : a[i] # 0 /\ \A j \in (i + 1)..Len(a) : a[j] = 0)

\* a < b
BigLess(a, b) ==
  \/ Len(a) < Len(b)
  \/ /\ Len(a) = Len(b)
     /\ \E i \in 1..Len(a) : a[i] < b[i] /\ \A j \in (i + 1)..Len(a) : a[j] = b[j]

\* a + b: a limb receives a carry when a lower limb overflows and every limb
\* between passes the carry on
BigAdd(a, b) ==
  BigTrim([i \in 1..((IF Len(a) > Len(b) THEN Len(a) ELSE Len(b)) + 1) |->
             (BigLimb(a, i) + BigLimb(b, i)
              + (IF \E j \in 1..(i - 1) :
                      /\ BigLimb(a, j) + BigLimb(b, j) >= BigBase
                      /\ \A l \in (j + 1)..(i - 1) : BigLimb(a, l) + BigLimb(b, l) = BigBase - 1
                 THEN 1 ELSE 0)) % BigBase])

\* a - b, for a >= b
BigSub(a, b) ==
  BigTrim([i \in 1..Len(a) |->
             (a[i] - BigLimb(b, i) + BigBase
              - (IF \E j \in 1..(i - 1) :
                      /\ a[j] < BigLimb(b, j)
                      /\ \A l \in (j + 1)..(i - 1) : a[l] = BigLimb(b, l)
                 THEN 1 ELSE 0)) % BigBase])

\* a * c for a divisor c of the base: c times the low part of a limb never
\* reaches past the base with what the limb below carries in
BigTimes(a, c) ==
  IF a = <<>> THEN <<>>
  ELSE <<>> \o [i \in 1..(Len(a) + (IF a[Len(a)] >= BigBase \div c THEN 1 ELSE 0)) |->
                  c * (BigLimb(a, i) % (BigBase \div c)) + (BigLimb(a, i - 1) \div (BigBase \div c))]

\* a * 2^j, nine bits at a time; the steps are taken half by half, so that
\* they nest to a depth logarithmic in their number
RECURSIVE BigTimesPow2(_, _)
BigTimesPow2(a, j) ==
  IF a = <<>> \/ j <= 9 THEN BigTimes(a, 2 ^ j)
  ELSE BigTimesPow2(BigTimesPow2(a, 9 * (((j \div 9) + 1) \div 2)),
                    j - 9 * (((j \div 9) + 1) \div 2))

\* a * 10^j: whole limbs of zeros below, the digits left over by BigTimes
BigTimesPow10(a, j) ==
  IF a = <<>> THEN <<>> ELSE [i \in 1..(j \div 9) |-> 0] \o BigTimes(a, 10 ^ (j % 9))

\* the natural with the decimal digits d, d not starting with 0
BigFromDigits(d) ==
  <<>> \o [i \in 1..((Len(d) + 8) \div 9) |->
             DigitsValue(SubSeq(d, IF Len(d) - 9 * i + 1 < 1 THEN 1 ELSE Len(d) - 9 * i + 1,
                                Len(d) - 9 * (i - 1)))]

\* Binary long division.  s holds the quotient so far and what is left of
\* the dividend; one bit of the quotient: t, the divisor times the bit, is
\* taken from what is left when it fits
BigDivideBit(s, t, bit) ==
  IF BigLess(s.r, t) THEN s ELSE [q |-> BigAdd(s.q, bit), r |-> BigSub(s.r, t)]

\* the bits hi down to lo of the quotient by b, half by half
RECURSIVE BigDivideBits(_, _, _, _)
BigDivideBits(s, b, hi, lo) ==
  IF s.r = <<>> THEN s
  ELSE IF hi = lo THEN BigDivideBit(s, BigTimesPow2(b, hi), BigTimesPow2(<<1>>, hi))
  ELSE BigDivideBits(BigDivideBits(s, b, hi, ((hi + lo) \div 2) + 1), b, (hi + lo) \div 2, lo)

\* a \div b as q and a % b as r, for a quotient below 2^bits
BigDivide(a, b, bits) == BigDivideBits([q |-> <<>>, r |-> a], b, bits - 1, 0)

\* ------------------------------------------------------------------ doubles
\* A double is m * 2^e with m < 2^53 and e >= -1074 (m >= 2^52 unless e is
\* -1074).  For a / b: e is moved until 2^52 <= a / (b * 2^e) < 2^53, or to
\* -1074; a and b are scaled with it.
RECURSIVE ScaleToMantissa(_, _, _)
ScaleToMantissa(a, b, e) ==
  IF ~BigLess(a, BigTimesPow2(b, 53)) THEN ScaleToMantissa(a, BigTimes(b, 2), e + 1)
  ELSE IF e > 0 - 1074 /\ BigLess(a, BigTimesPow2(b, 52))
       THEN ScaleToMantissa(BigTimes(a, 2), b, e - 1)
  ELSE [a |-> a, b |-> b, e |-> e]

\* the quotient d of a by b rounded to the nearest natural, a tie to the even
\* one
RoundHalfEven(d, b) ==
  IF d.r = <<>> THEN d.q
  ELSE BigAdd(d.q, IF \/ BigLess(b, BigTimes(d.r, 2))
                      \/ (BigTimes(d.r, 2) = b /\ BigLimb(d.q, 1) % 2 = 1)
                   THEN <<1>> ELSE <<>>)

\* a mantissa that rounding brought to 2^53 is 2^52 at the next exponent
Renormalised(m, e) ==
  IF m = BigTimesPow2(<<1>>, 53) THEN [m |-> BigTimesPow2(<<1>>, 52), e |-> e + 1]
  ELSE [m |-> m, e |-> e]

RoundedQuotient(s) ==
  IF s.a = <<>> THEN [m |-> <<>>, e |-> s.e]
  ELSE Renormalised(RoundHalfEven(BigDivide(s.a, s.b, 53), s.b), s.e)

\* the double nearest to 0.d * 10^n, for a number that is neither 0 nor
\* Infinity as a double.  e starts from an estimate x below where it ends (a
\* decimal digit is more than 3.3219 bits).
NearestDoubleFrom(d, n, x) ==
  RoundedQuotient(
    ScaleToMantissa(
      BigTimesPow2(BigTimesPow10(BigFromDigits(d), IF n > Len(d) THEN n - Len(d) ELSE 0),
                   IF x < 0 THEN 0 - x ELSE 0),
      BigTimesPow2(BigTimesPow10(<<1>>, IF Len(d) > n THEN Len(d) - n ELSE 0),
                   IF x > 0 THEN x ELSE 0),
      x))
NearestDouble(d, n) ==
  NearestDoubleFrom(d, n, IF (((n + 399) * 33219) \div 10000) - 1383 < 0 - 1074 THEN 0 - 1074
                          ELSE (((n + 399) * 33219) \div 10000) - 1383)

\* ------------------------------------------------- Number::toString digits
\* The double x = m * 2^e as r / s, with mp / s and mm / s half the distance
\* to the next double above and below (the one below is twice as near when m
\* is 2^52, which is what near says); even: a number half way rounds to x.
\* k is the decimal exponent: r, s, mp, mm are scaled so that the digits of
\* 0.d1d2... come out of r / s.
ShortestStartNear(x, k, near) ==
  [r |-> BigTimesPow10(BigTimesPow2(x.m, (IF x.e > 0 THEN x.e ELSE 0) + 1 + near),
                       IF k < 0 THEN 0 - k ELSE 0),
   s |-> BigTimesPow10(BigTimesPow2(<<1>>, (IF x.e < 0 THEN 0 - x.e ELSE 0) + 1 + near),
                       IF k > 0 THEN k ELSE 0),
   mp |-> BigTimesPow10(BigTimesPow2(<<1>>, (IF x.e > 0 THEN x.e ELSE 0) + near),
                        IF k < 0 THEN 0 - k ELSE 0),
   mm |-> BigTimesPow10(BigTimesPow2(<<1>>, IF x.e > 0 THEN x.e ELSE 0),
                        IF k < 0 THEN 0 - k ELSE 0),
   even |-> x.m[1] % 2 = 0,
   k |-> k,
   digits |-> <<>>,
   done |-> FALSE]
ShortestStart(x, k) ==
  ShortestStartNear(x, k, IF x.m = BigTimesPow2(<<1>>, 52) /\ x.e > 0 - 1074 THEN 1 ELSE 0)

\* k is moved to the least exponent with 10^k above every number that rounds
\* to x; high is r + mp
RECURSIVE ShortestScale(_, _)
ShortestScale(f, high) ==
  IF BigLess(f.s, high) \/ (f.even /\ high = f.s)
  THEN ShortestScale([f EXCEPT !.s = BigTimes(@, 10), !.k = @ + 1], high)
  ELSE IF BigLess(BigTimes(high, 10), f.s) \/ (~f.even /\ BigTimes(high, 10) = f.s)
       THEN ShortestScale([f EXCEPT !.r = BigTimes(@, 10), !.mp = BigTimes(@, 10),
                                    !.mm = BigTimes(@, 10), !.k = @ - 1],
                          BigTimes(high, 10))
  ELSE f
ShortestScaleFrom(f) == ShortestScale(f, BigAdd(f.r, f.mp))

\* One digit of x: d is 10 * r by s, mp and mm are moved with r.  low: what
\* is left is within reach of the midpoint below, so the digits so far and
\* this one tell x from its neighbour; high: the same with the digit above.
\* The digits end at the first of these, with the digit nearer to x (the even
\* one at a tie).
ShortestEmit(f, d, mp, mm, low, high) ==
  IF ~low /\ ~high
  THEN [f EXCEPT !.r = d.r, !.mp = mp, !.mm = mm,
                 !.digits = Append(@, DecimalDigits[BigLimb(d.q, 1) + 1])]
  ELSE [f EXCEPT !.done = TRUE,
                 !.digits =
                   Append(@, DecimalDigits[
                     BigLimb(d.q, 1) + 1
                     + (IF high /\ (\/ ~low
                                    \/ BigLess(f.s, BigTimes(d.r, 2))
                                    \/ (BigTimes(d.r, 2) = f.s /\ BigLimb(d.q, 1) % 2 = 1))
                        THEN 1 ELSE 0)])]
ShortestTest(f, d, mp, mm) ==
  ShortestEmit(f, d, mp, mm,
               BigLess(d.r, mm) \/ (f.even /\ d.r = mm),
               BigLess(f.s, BigAdd(d.r, mp)) \/ (f.even /\ BigAdd(d.r, mp) = f.s))
ShortestDigit(f) ==
  ShortestTest(f, BigDivide(BigTimes(f.r, 10), f.s, 4), BigTimes(f.mp, 10), BigTimes(f.mm, 10))

\* up to n digits of x, half by half: as few as tell x from its neighbours
RECURSIVE ShortestDigits(_, _)
ShortestDigits(f, n) ==
  IF f.done THEN f
  ELSE IF n = 1 THEN ShortestDigit(f)
  ELSE ShortestDigits(ShortestDigits(f, n \div 2), n - (n \div 2))

\* Number::toString of the positive double x, k an exponent to start from; a
\* double is told from its neighbours by 17 digits
ShortestString(f) == FormatNumber(f.digits, f.k)
DoubleToString(x, k) ==
  IF x.m = <<>> THEN <<"0">>
  ELSE ShortestString(ShortestDigits(ShortestScaleFrom(ShortestStart(x, k)), 17))

\* String(x) of a number: Number::toString of the double nearest to it.  The
\* shortest digits of that double are the number's own significant digits
\* when there are at most 15 of them and the double is a normal one (from
\* 10^-307 on every double is); otherwise they are computed from the double.
NumberToString(v) ==
  CASE IsZero(v) -> <<"0">>
    [] IsInfinite(v) ->
         (IF v[1] = "-" THEN <<"-">> ELSE <<>>) \o <<"I", "n", "f", "i", "n", "i", "t", "y">>
    [] /\ ~IsZero(v) /\ ~IsInfinite(v)
       /\ Len(SignificantDigits(v)) <= 15
       /\ DecimalExponent(v) >= 0 - 306
       -> (IF v[1] = "-" THEN <<"-">> ELSE <<>>)
          \o FormatNumber(SignificantDigits(v), DecimalExponent(v))
    [] OTHER ->
         (IF v[1] = "-" THEN <<"-">> ELSE <<>>)
         \o DoubleToString(NearestDouble(SignificantDigits(v), DecimalExponent(v)),
                           DecimalExponent(v))

\* ToBoolean: undefined, null, "", 0 and false are falsy
Truthy(x) ==
  CASE x.t = "undefined" -> FALSE
    [] x.t = "null" -> FALSE
    [] x.t = "string" -> x.v # <<>>
    [] x.t = "number" -> ~IsZero(x.v)
    [] x.t = "boolean" -> x.v = <<"t", "r", "u", "e">>
    [] OTHER -> TRUE

\* a || null
OrNull(x) == IF Truthy(x) THEN x ELSE Null

\* The white space of \s and of String.prototype.trim: TAB, LF, VT, FF, CR,
\* SP, NBSP, BOM, the line and paragraph separators and the space separators
WhiteSpace ==
  {" ", "\t", "\n", "\f", "\r",
   "\\u000b", "\\u00a0", "\\ufeff", "\\u1680", "\\u2000", "\\u2001",
   "\\u2002", "\\u2003", "\\u2004", "\\u2005", "\\u2006", "\\u2007",
   "\\u2008", "\\u2009", "\\u200a", "\\u2028", "\\u2029", "\\u202f",
   "\\u205f", "\\u3000"}

IsSpace(c) == c \in WhiteSpace

RECURSIVE TrimStart(_)
TrimStart(s) ==
  IF s = <<>> THEN <<>>
  ELSE IF IsSpace(Head(s)) THEN TrimStart(Tail(s)) ELSE s

RECURSIVE TrimEnd(_)
TrimEnd(s) ==
  IF s = <<>> THEN <<>>
  ELSE IF IsSpace(s[Len(s)]) THEN TrimEnd(SubSeq(s, 1, Len(s) - 1)) ELSE s

\* trim that takes only U+0020 for white space
Trim_spacesOnly(s) ==
  LET n == Len(s)
      first == IF \E k \in 1..n : s[k] # " "
               THEN CHOOSE k \in 1..n : s[k] # " " /\ \A j \in 1..(k - 1) : s[j] = " "
               ELSE n + 1
      last == IF \E k \in 1..n : s[k] # " "
              THEN CHOOSE k \in 1..n : s[k] # " " /\ \A j \in (k + 1)..n : s[j] = " "
              ELSE 0
  IN SubSeq(s, first, last)

\* String.prototype.trim
Trim(s) == TrimEnd(TrimStart(s))

\* [^\s@]+ matches the whole of s
IsLocalRun(s) ==
  /\ Len(s) > 0
  /\ \A k \in 1..Len(s) : ~IsSpace(s[k]) /\ s[k] # "@"

\* /^[^\s@]+@[^\s@]+\.[^\s@]+$/.test(s)
EmailRegexTest(s) ==
  \E i \in 1..Len(s) : \E j \in 1..Len(s) :
    /\ i < j
    /\ s[i] = "@"
    /\ s[j] = "."
    /\ IsLocalRun(SubSeq(s, 1, i - 1))
    /\ IsLocalRun(SubSeq(s, i + 1, j - 1))
    /\ IsLocalRun(SubSeq(s, j + 1, Len(s)))

\* ToString(x) raises a TypeError: an object of JSON.parse that has a
\* property "toString" of its own hides Object.prototype.toString with a
\* value that cannot be called, and valueOf yields no primitive; an array
\* joins the strings of its elements
ToStringName == <<"t", "o", "S", "t", "r", "i", "n", "g">>

RECURSIVE ToStringThrows(_)
ToStringThrows(x) ==
  CASE x.t = "object" -> \E k \in 1..Len(x.v) : x.v[k].key = ToStringName
    [] x.t = "array" -> \E k \in 1..Len(x.v) : ToStringThrows(x.v[k])
    [] OTHER -> FALSE

\* ToString(x), the characters of String(x)
RECURSIVE ToString(_)
RECURSIVE JoinElements(_)
ToString(x) ==
  CASE x.t = "string" -> x.v
    [] x.t = "number" -> NumberToString(x.v)
    [] x.t = "boolean" -> x.v
    [] x.t = "null" -> <<"n", "u", "l", "l">>
    [] x.t = "undefined" -> <<"u", "n", "d", "e", "f", "i", "n", "e", "d">>
    [] x.t = "object" ->
         <<"[", "o", "b", "j", "e", "c", "t", " ", "O", "b", "j", "e", "c", "t", "]">>
    [] x.t = "array" -> JoinElements(x.v)

\* Array.prototype.join: null and undefined elements give the empty string
ElementString(x) == IF x.t \in {"undefined", "null"} THEN <<>> ELSE ToString(x)

JoinElements(elements) ==
  IF elements = <<>> THEN <<>>
  ELSE IF Len(elements) = 1 THEN ElementString(elements[1])
  ELSE ElementString(elements[1]) \o <<",">> \o JoinElements(Tail(elements))

\* SerializeJSONProperty of JSON.stringify, as the JSON value of the text it
\* writes: a number that is not finite is written null, any other number by
\* its String(); the elements of an array and the members of an object are
\* written the same way; strings, booleans and null are written as they are
\* (no value of JSON.parse has a toJSON that can be called)
RECURSIVE SerializeJSONProperty(_)
SerializeJSONProperty(x) ==
  CASE x.t = "number" -> IF IsInfinite(x.v) THEN Null ELSE Num(NumberToString(x.v))
    [] x.t = "array" -> Arr([k \in 1..Len(x.v) |-> SerializeJSONProperty(x.v[k])])
    [] x.t = "object" ->
         JsonObject([k \in 1..Len(x.v) |->
                       [key |-> x.v[k].key, val |-> SerializeJSONProperty(x.v[k].val)]])
    [] OTHER -> x

\* regex.test(email) raises when the string of email cannot be taken
hasEmailThrows(email) == Truthy(email) /\ ToStringThrows(email)

\* const hasEmail = email && regex.test(email)   (test() applies ToString)
hasEmail(email) == Truthy(email) /\ EmailRegexTest(ToString(email))

\* phone.trim() raises a TypeError when phone is truthy and not a string
hasPhoneThrows(phone) == Truthy(phone) /\ phone.t # "string"

\* const hasPhone = phone && phone.trim().length > 0
hasPhone(phone) == Truthy(phone) /\ Len(Trim(phone.v)) > 0

\* ------------------------------------------------------------ request body
\* kind "unparseable": req.json() rejects; "null": the JSON text null, whose
\* destructuring raises; "object": a JSON object with the five fields.
Body(kind, email, phone, zip, name, source) ==
  [kind |-> kind, email |-> email, phone |-> phone, zip |-> zip,
   name |-> name, source |-> source]

UnparseableBody == Body("unparseable", Undefined, Undefined, Undefined, Undefined, Undefined)
NullBody == Body("null", Undefined, Undefined, Undefined, Undefined, Undefined)
Obj(email, phone, zip, name, source) == Body("object", email, phone, zip, name, source)

\* ---------------------------------------------------------------- responses
InternalServerError == [status |-> 500, body |-> [error |-> "Internal server error"]]
EmailOrPhoneRequired == [status |-> 400, body |-> [error |-> "Email or phone number is required"]]
InvalidEmailAddress == [status |-> 400, body |-> [error |-> "Invalid email address"]]
LeadReceived == [status |-> 200, body |-> [success |-> TRUE, message |-> "Lead received"]]
LeadReceivedNoWebhook ==
  [status |-> 200, body |-> [success |-> TRUE, message |-> "Lead received (webhook not configured)"]]

\* The part of POST before the first side effect: which way the handler goes.
ValidationOutcome(b) ==
  IF b.kind # "object" THEN "fault"
  ELSE IF hasEmailThrows(b.email) THEN "fault"
  ELSE IF hasPhoneThrows(b.phone) THEN "fault"
  ELSE IF ~hasEmail(b.email) /\ ~hasPhone(b.phone) THEN "required"
  ELSE IF Truthy(b.email) /\ ~EmailRegexTest(ToString(b.email)) /\ ~hasPhone(b.phone)
  THEN "invalidEmail"
  ELSE "accepted"

\* --------------------------------------------------------------- JSON.parse
\* A parsed value is [t, v]; the elements of an array are in the order of
\* the text, the members of an object in the order of its own keys.
JsonFail == [ok |-> FALSE, next |-> 0, val |-> Undefined]
JsonOk(next, val) == [ok |-> TRUE, next |-> next, val |-> val]

JsonWhiteSpace == {" ", "\t", "\n", "\r"}
Digits == {"0", "1", "2", "3", "4", "5", "6", "7", "8", "9"}
HexDigits == <<"0", "1", "2", "3", "4", "5", "6", "7", "8", "9", "a", "b", "c", "d", "e", "f">>
UpperHex == <<"0", "1", "2", "3", "4", "5", "6", "7", "8", "9", "A", "B", "C", "D", "E", "F">>
\* the characters U+0020 to U+007E
Ascii ==
  <<
    " ", "!", "\"", "#", "$", "%", "&", "'", "(", ")", "*", "+", ",", "-",
    ".", "/", "0", "1", "2", "3", "4", "5", "6", "7", "8", "9", ":", ";",
    "<", "=", ">", "?", "@", "A", "B", "C", "D", "E", "F", "G", "H", "I",
    "J", "K", "L", "M", "N", "O", "P", "Q", "R", "S", "T", "U", "V", "W",
    "X", "Y", "Z", "[", "\\", "]", "^", "_", "\\u0060", "a", "b", "c", "d",
    "e", "f", "g", "h", "i", "j", "k", "l", "m", "n", "o", "p", "q", "r",
    "s", "t", "u", "v", "w", "x", "y", "z", "{", "|", "}", "~" >>
\* U+0000 to U+001F, which a JSON string holds only escaped
ControlCharacters ==
  {"\t", "\n", "\f", "\r",
   "\\u0000", "\\u0001", "\\u0002", "\\u0003", "\\u0004", "\\u0005",
   "\\u0006", "\\u0007", "\\u0008", "\\u0009", "\\u000a", "\\u000b",
   "\\u000c", "\\u000d", "\\u000e", "\\u000f", "\\u0010", "\\u0011",
   "\\u0012", "\\u0013", "\\u0014", "\\u0015", "\\u0016", "\\u0017",
   "\\u0018", "\\u0019", "\\u001a", "\\u001b", "\\u001c", "\\u001d",
   "\\u001e", "\\u001f"}

IsHex(c) == \E k \in 1..16 : c = HexDigits[k] \/ c = UpperHex[k]
HexValue(c) == (CHOOSE k \in 1..16 : c = HexDigits[k] \/ c = UpperHex[k]) - 1

\* the character with a code: itself in U+0020..U+007E, else its escape
CharOfCode(code, h) ==
  IF code >= 32 /\ code <= 126 THEN Ascii[code - 31]
  ELSE IF code = 9 THEN "\t"
  ELSE IF code = 10 THEN "\n"
  ELSE IF code = 12 THEN "\f"
  ELSE IF code = 13 THEN "\r"
  ELSE "\\u" \o HexDigits[HexValue(h[1]) + 1] \o HexDigits[HexValue(h[2]) + 1]
             \o HexDigits[HexValue(h[3]) + 1] \o HexDigits[HexValue(h[4]) + 1]

\* the character of a \uXXXX escape
CodeUnit(h) ==
  CharOfCode(4096 * HexValue(h[1]) + 256 * HexValue(h[2]) + 16 * HexValue(h[3])
             + HexValue(h[4]), h)

RECURSIVE SkipJsonWhiteSpace(_, _)
SkipJsonWhiteSpace(s, i) ==
  IF i <= Len(s) /\ s[i] \in JsonWhiteSpace THEN SkipJsonWhiteSpace(s, i + 1) ELSE i

RECURSIVE SkipDigits(_, _)
SkipDigits(s, i) == IF i <= Len(s) /\ s[i] \in Digits THEN SkipDigits(s, i + 1) ELSE i

IsDigitAt(s, i) == i <= Len(s) /\ s[i] \in Digits

\* a number from position i: -?(0|[1-9][0-9]*)(\.[0-9]+)?([eE][+-]?[0-9]+)?
NumberEnd(s, i, e) == JsonOk(e, Num(SubSeq(s, i, e - 1)))

NumberExponent(s, i, d) ==
  IF IsDigitAt(s, d) THEN NumberEnd(s, i, SkipDigits(s, d)) ELSE JsonFail

NumberAfterFraction(s, i, c) ==
  IF c > Len(s) \/ s[c] \notin {"e", "E"} THEN NumberEnd(s, i, c)
  ELSE IF c + 1 <= Len(s) /\ s[c + 1] \in {"+", "-"} THEN NumberExponent(s, i, c + 2)
  ELSE NumberExponent(s, i, c + 1)

NumberAfterInteger(s, i, b) ==
  IF b > Len(s) \/ s[b] # "." THEN NumberAfterFraction(s, i, b)
  ELSE IF IsDigitAt(s, b + 1) THEN NumberAfterFraction(s, i, SkipDigits(s, b + 1))
  ELSE JsonFail

NumberInteger(s, i, a) ==
  IF ~IsDigitAt(s, a) THEN JsonFail
  ELSE IF s[a] = "0" THEN NumberAfterInteger(s, i, a + 1)
  ELSE NumberAfterInteger(s, i, SkipDigits(s, a))

ParseJsonNumber(s, i) == NumberInteger(s, i, IF s[i] = "-" THEN i + 1 ELSE i)

\* the characters of a string, from the one after the opening quote
RECURSIVE ParseJsonString(_, _, _)
ParseJsonString(s, i, acc) ==
  IF i > Len(s) THEN JsonFail
  ELSE IF s[i] = "\"" THEN JsonOk(i + 1, Str(acc))
  ELSE IF s[i] \in ControlCharacters THEN JsonFail
  ELSE IF s[i] # "\\" THEN ParseJsonString(s, i + 1, Append(acc, s[i]))
  ELSE IF i + 1 > Len(s) THEN JsonFail
  ELSE LET e == s[i + 1]
       IN IF e \in {"\"", "\\", "/"} THEN ParseJsonString(s, i + 2, Append(acc, e))
          ELSE IF e = "b" THEN ParseJsonString(s, i + 2, Append(acc, "\\u0008"))
          ELSE IF e = "f" THEN ParseJsonString(s, i + 2, Append(acc, "\f"))
          ELSE IF e = "n" THEN ParseJsonString(s, i + 2, Append(acc, "\n"))
          ELSE IF e = "r" THEN ParseJsonString(s, i + 2, Append(acc, "\r"))
          ELSE IF e = "t" THEN ParseJsonString(s, i + 2, Append(acc, "\t"))
          ELSE IF e = "u" /\ i + 5 <= Len(s) /\ \A k \in 2..5 : IsHex(s[i + k])
               THEN ParseJsonString(s, i + 6, Append(acc, CodeUnit(SubSeq(s, i + 2, i + 5))))
          ELSE JsonFail

IsLiteralAt(s, i, word) ==
  i + Len(word) - 1 <= Len(s) /\ SubSeq(s, i, i + Len(word) - 1) = word

RECURSIVE ParseJsonValue(_, _)
RECURSIVE ParseJsonMembers(_, _, _)
RECURSIVE ParseJsonElements(_, _, _)

\* after "{" and white space: "}" or the members
ObjectAt(s, k) ==
  IF k <= Len(s) /\ s[k] = "}" THEN JsonOk(k + 1, JsonObject(<<>>))
  ELSE ParseJsonMembers(s, k, <<>>)

\* after "[" and white space: "]" or the elements
ArrayAt(s, k) ==
  IF k <= Len(s) /\ s[k] = "]" THEN JsonOk(k + 1, Arr(<<>>))
  ELSE ParseJsonElements(s, k, <<>>)

\* a value that starts at position j
ValueAt(s, j) ==
  IF j > Len(s) THEN JsonFail
  ELSE IF s[j] = "{" THEN ObjectAt(s, SkipJsonWhiteSpace(s, j + 1))
  ELSE IF s[j] = "[" THEN ArrayAt(s, SkipJsonWhiteSpace(s, j + 1))
  ELSE IF s[j] = "\"" THEN ParseJsonString(s, j + 1, <<>>)
  ELSE IF IsLiteralAt(s, j, <<"t", "r", "u", "e">>)
  THEN JsonOk(j + 4, True)
  ELSE IF IsLiteralAt(s, j, <<"f", "a", "l", "s", "e">>)
  THEN JsonOk(j + 5, False)
  ELSE IF IsLiteralAt(s, j, <<"n", "u", "l", "l">>)
  THEN JsonOk(j + 4, Null)
  ELSE IF s[j] = "-" \/ s[j] \in Digits THEN ParseJsonNumber(s, j)
  ELSE JsonFail

\* a value, from position i, white space before it skipped
ParseJsonValue(s, i) == ValueAt(s, SkipJsonWhiteSpace(s, i))

\* after a member and white space: "," and more members, or "}"
MembersAfter(s, k, members) ==
  IF k > Len(s) THEN JsonFail
  ELSE IF s[k] = "," THEN ParseJsonMembers(s, k + 1, members)
  ELSE IF s[k] = "}" THEN JsonOk(k + 1, JsonObject(members))
  ELSE JsonFail

\* an array index: the canonical text of an integer below 2^32 - 1
GreatestArrayIndex == <<"4", "2", "9", "4", "9", "6", "7", "2", "9", "4">>
IsArrayIndex(key) ==
  /\ key # <<>>
  /\ \A k \in 1..Len(key) : key[k] \in Digits
  /\ key[1] # "0" \/ Len(key) = 1
  /\ \/ Len(key) < Len(GreatestArrayIndex)
     \/ Len(key) = Len(GreatestArrayIndex) /\ FractionAtMost(key, GreatestArrayIndex)

\* CreateDataProperty(object, key, val): a key the object has keeps its place
\* and takes the new value; a new array index goes among the array indices,
\* which come first in ascending order; any other new key goes last
DefineMember(members, key, val) ==
  IF \E k \in 1..Len(members) : members[k].key = key
  THEN [members EXCEPT ![CHOOSE k \in 1..Len(members) : members[k].key = key].val = val]
  ELSE IF IsArrayIndex(key)
  THEN LET p == Cardinality({k \in 1..Len(members) :
                               /\ IsArrayIndex(members[k].key)
                               /\ \/ Len(members[k].key) < Len(key)
                                  \/ /\ Len(members[k].key) = Len(key)
                                     /\ FractionAtMost(members[k].key, key)})
       IN SubSeq(members, 1, p) \o <<[key |-> key, val |-> val]>>
          \o SubSeq(members, p + 1, Len(members))
  ELSE Append(members, [key |-> key, val |-> val])

\* the value of a member has been read
MemberValue(s, key, value, members) ==
  IF ~value.ok THEN JsonFail
  ELSE MembersAfter(s, SkipJsonWhiteSpace(s, value.next),
                    DefineMember(members, key.val.v, value.val))

\* the key of a member has been read, white space after it skipped
MemberColon(s, key, colon, members) ==
  IF colon > Len(s) \/ s[colon] # ":" THEN JsonFail
  ELSE MemberValue(s, key, ParseJsonValue(s, colon + 1), members)

MemberKey(s, key, members) ==
  IF ~key.ok THEN JsonFail
  ELSE MemberColon(s, key, SkipJsonWhiteSpace(s, key.next), members)

MemberAt(s, j, members) ==
  IF j > Len(s) \/ s[j] # "\"" THEN JsonFail
  ELSE MemberKey(s, ParseJsonString(s, j + 1, <<>>), members)

\* "key": value, ... } from the first key
ParseJsonMembers(s, i, members) == MemberAt(s, SkipJsonWhiteSpace(s, i), members)

\* after an element and white space: "," and more elements, or "]"
ElementsAfter(s, k, elements) ==
  IF k > Len(s) THEN JsonFail
  ELSE IF s[k] = "," THEN ParseJsonElements(s, k + 1, elements)
  ELSE IF s[k] = "]" THEN JsonOk(k + 1, Arr(elements))
  ELSE JsonFail

ElementValue(s, value, elements) ==
  IF ~value.ok THEN JsonFail
  ELSE ElementsAfter(s, SkipJsonWhiteSpace(s, value.next), Append(elements, value.val))

\* value, ... ] from the first element
ParseJsonElements(s, i, elements) == ElementValue(s, ParseJsonValue(s, i), elements)

\* the text is a value and white space
ParsedText(text, p) ==
  IF p.ok /\ SkipJsonWhiteSpace(text, p.next) = Len(text) + 1
  THEN [throws |-> FALSE, value |-> p.val]
  ELSE [throws |-> TRUE, value |-> JsonFail.val]

\* JSON.parse(text): raises a SyntaxError, or yields the value
JSONParse(text) == ParsedText(text, ParseJsonValue(text, 1))

\* value.name: the property of that name of an object, undefined on any
\* other value but null (where the read raises a TypeError)
Property(value, name) ==
  IF value.t # "object" THEN Undefined
  ELSE IF \E k \in 1..Len(value.v) : value.v[k].key = name
  THEN value.v[CHOOSE k \in 1..Len(value.v) : value.v[k].key = name].val
  ELSE Undefined

\* ------------------------------------------------------------ configuration
\* process.env: each variable is undefined or a string.
MalformedJson == <<"{", "!">>
NullJson == <<"n", "u", "l", "l">>
EmptyObjectJson == <<"{", "}">>
NumberJson == <<"5">>
CredentialsJson ==
  <<"{", "\"", "c", "l", "i", "e", "n", "t", "_", "e", "m", "a", "i", "l", "\"", ":", "\"", "j", "@", "s", "a", "\"", ",",
     "\"", "p", "r", "i", "v", "a", "t", "e", "_", "k", "e", "y", "\"", ":",
     "\"", "J", "\\", "n", "K", "\"", "}">>
\* a client_email that is a number too small for a double: 0
TinyEmailJson ==
  <<"{", "\"", "c", "l", "i", "e", "n", "t", "_", "e", "m", "a", "i", "l", "\"", ":", "1", "e", "-", "4",
     "0", "0", ",", "\"", "p", "r", "i", "v", "a", "t", "e", "_", "k", "e", "y", "\"", ":", "\"", "k", "\"", "}">>
JsonClientEmail == <<"j", "@", "s", "a">>
JsonPrivateKey == <<"J", "\n", "K">>
ClientEmailName == <<"c", "l", "i", "e", "n", "t", "_", "e", "m", "a", "i", "l">>
PrivateKeyName == <<"p", "r", "i", "v", "a", "t", "e", "_", "k", "e", "y">>

\* s.replace(/\\n/g, "\n"): each backslash followed by n becomes a newline
RECURSIVE UnescapeNewlines(_)
UnescapeNewlines(s) ==
  IF s = <<>> THEN <<>>
  ELSE IF Len(s) >= 2 /\ s[1] = "\\" /\ s[2] = "n"
       THEN <<"\n">> \o UnescapeNewlines(SubSeq(s, 3, Len(s)))
       ELSE <<s[1]>> \o UnescapeNewlines(Tail(s))

\* process.env.GOOGLE_PRIVATE_KEY?.replace(/\\n/g, "\n")
serviceAccountPrivateKey(e) ==
  IF e.GOOGLE_PRIVATE_KEY.t = "undefined" THEN Undefined
  ELSE Str(UnescapeNewlines(e.GOOGLE_PRIVATE_KEY.v))

SCOPES == <<"https://www.googleapis.com/auth/spreadsheets">>
SPREADSHEET_ID == "1vKLMGD3dm4elpvxgXtbgU3HOwWvdjsDX63xUqqjcb9Y"
SHEET_NAME == "Sheet1"

JWT(email, key) == [email |-> email, key |-> key, scopes |-> SCOPES]
NoAuth == JWT(Undefined, Undefined)

\* x && x.trim().length > 0
NotBlank(x) == Truthy(x) /\ Len(Trim(x.v)) > 0

\* The credential resolution of savePhoneToGoogleSheets in route.ts: how the
\* function authenticates ("json", "pair"), or why it returns false before
\* any call to the sheet ("parseError": the catch of the inner try, taken
\* when JSON.parse raises or the parsed value is null; "missing").
ResolveCredentials_fallback(e) ==
  LET parsed == JSONParse(e.GOOGLE_SERVICE_ACCOUNT_KEY.v)
      key == serviceAccountPrivateKey(e)
  IN IF Truthy(e.GOOGLE_SERVICE_ACCOUNT_KEY) /\ ~parsed.throws /\ parsed.value.t # "null"
     THEN [how |-> "json", auth |-> JWT(Property(parsed.value, ClientEmailName),
                                        Property(parsed.value, PrivateKeyName))]
     ELSE IF Truthy(e.GOOGLE_SERVICE_ACCOUNT_EMAIL) /\ Truthy(key)
     THEN [how |-> "pair", auth |-> JWT(e.GOOGLE_SERVICE_ACCOUNT_EMAIL, key)]
     ELSE [how |-> "missing", auth |-> NoAuth]

ResolveCredentials(e) ==
  LET parsed == JSONParse(e.GOOGLE_SERVICE_ACCOUNT_KEY.v)
      key == serviceAccountPrivateKey(e)
  IN IF Truthy(e.GOOGLE_SERVICE_ACCOUNT_KEY)
     THEN IF parsed.throws \/ parsed.value.t = "null"
          THEN [how |-> "parseError", auth |-> NoAuth]
          ELSE [how |-> "json", auth |-> JWT(Property(parsed.value, ClientEmailName),
                                             Property(parsed.value, PrivateKeyName))]
     ELSE IF Truthy(e.GOOGLE_SERVICE_ACCOUNT_EMAIL) /\ Truthy(key)
     THEN [how |-> "pair", auth |-> JWT(e.GOOGLE_SERVICE_ACCOUNT_EMAIL, key)]
     ELSE [how |-> "missing", auth |-> NoAuth]

\* The same in part_000: blank variables count as unset, a parsed value
\* without client_email or private_key returns false ("missingFields"), and
\* client_email.substring raises inside the inner try when client_email is
\* not a string.
ResolveCredentials000(e) ==
  LET parsed == JSONParse(e.GOOGLE_SERVICE_ACCOUNT_KEY.v)
      key == serviceAccountPrivateKey(e)
      email == Property(parsed.value, ClientEmailName)
      private == Property(parsed.value, PrivateKeyName)
  IN IF NotBlank(e.GOOGLE_SERVICE_ACCOUNT_KEY)
     THEN IF parsed.throws \/ parsed.value.t = "null"
          THEN [how |-> "parseError", auth |-> NoAuth]
          ELSE IF ~Truthy(email) \/ ~Truthy(private)
          THEN [how |-> "missingFields", auth |-> NoAuth]
          ELSE IF email.t # "string"
          THEN [how |-> "parseError", auth |-> NoAuth]
          ELSE [how |-> "json", auth |-> JWT(email, private)]
     ELSE IF NotBlank(e.GOOGLE_SERVICE_ACCOUNT_EMAIL) /\ NotBlank(key)
     THEN [how |-> "pair", auth |-> JWT(e.GOOGLE_SERVICE_ACCOUNT_EMAIL, key)]
     ELSE [how |-> "missing", auth |-> NoAuth]

\* The same in part_001: only the email / private key pair is read
ResolveCredentials001(e) ==
  LET key == serviceAccountPrivateKey(e)
  IN IF ~Truthy(e.GOOGLE_SERVICE_ACCOUNT_EMAIL) \/ ~Truthy(key)
     THEN [how |-> "missing", auth |-> NoAuth]
     ELSE [how |-> "pair", auth |-> JWT(e.GOOGLE_SERVICE_ACCOUNT_EMAIL, key)]

Authenticates(c) == c.how \in {"json", "pair"}

\* The three handlers of the repository
Handlers == {"route", "part_000", "part_001"}

CredentialsOf(handler, e) ==
  IF handler = "route" THEN ResolveCredentials(e)
  ELSE IF handler = "part_000" THEN ResolveCredentials000(e)
  ELSE ResolveCredentials001(e)

\* ------------------------------------------------------------------- state
VARIABLES
  env,        \* process.env, fixed for the life of the process
  req,        \* req[r]: the local state of the handler run for request r
  sheet,      \* the rows of Sheet1!A:A appended so far (the external sheet)
  readLog,    \* the values.get calls issued, in order
  appendLog,  \* the values.append calls issued, in order
  hookLog,    \* the fetch calls issued to the webhook, in order
  now         \* the last value new Date() gave; the clock never runs back

vars == <<env, req, sheet, readLog, appendLog, hookLog, now>>

Requests == 1..MaxRequests
Times == 0..MaxClock

NewRequest ==
  [pc |-> "idle", handler |-> "route", body |-> UnparseableBody,
   saveCalled |-> FALSE, saveReturned |-> FALSE, saveResult |-> FALSE,
   getInFlight |-> FALSE, appendInFlight |-> FALSE, webhookInFlight |-> FALSE,
   getOutcome |-> "none", appendOutcome |-> "none", fetchOutcome |-> "none",
   resp |-> <<>>]

\* return NextResponse.json(...): the handler run ends with one response
Respond(rq, response) == [rq EXCEPT !.pc = "done", !.resp = Append(rq.resp, response)]

\* const webhookPayload = { email: email || null, ..., timestamp }
WebhookPayload_validated(b, t) ==
  [email |-> IF hasEmail(b.email) THEN b.email ELSE Null,
   zip |-> OrNull(b.zip), name |-> OrNull(b.name),
   phone |-> IF hasPhone(b.phone) THEN Str(Trim(b.phone.v)) ELSE Null,
   source |-> OrNull(b.source), timestamp |-> t]

WebhookPayload(b, t) ==
  [email |-> OrNull(b.email), zip |-> OrNull(b.zip), name |-> OrNull(b.name),
   phone |-> OrNull(b.phone), source |-> OrNull(b.source), timestamp |-> t]

\* JSON.stringify(webhookPayload): the payload as the text of the request
\* body gives it (the timestamp is a string, written as it is)
JSONStringify(payload) ==
  [email |-> SerializeJSONProperty(payload.email),
   zip |-> SerializeJSONProperty(payload.zip),
   name |-> SerializeJSONProperty(payload.name),
   phone |-> SerializeJSONProperty(payload.phone),
   source |-> SerializeJSONProperty(payload.source),
   timestamp |-> payload.timestamp]

\* sheets.spreadsheets.values.get({spreadsheetId, range: "Sheet1!A1:A1"})
GetRequest(r, auth) ==
  [req |-> r, auth |-> auth, spreadsheetId |-> SPREADSHEET_ID,
   range |-> <<SHEET_NAME, "!A1:A1">>]

\* sheets.spreadsheets.values.append({...requestBody: {values: [[phone]]}})
AppendRequest_trimmed(r, auth, phone) ==
  [req |-> r, auth |-> auth, spreadsheetId |-> SPREADSHEET_ID,
   range |-> <<SHEET_NAME, "!A:A">>, valueInputOption |-> "RAW",
   insertDataOption |-> "INSERT_ROWS", values |-> << <<Str(Trim(phone.v))>> >>]

AppendRequest(r, auth, phone) ==
  [req |-> r, auth |-> auth, spreadsheetId |-> SPREADSHEET_ID,
   range |-> <<SHEET_NAME, "!A:A">>, valueInputOption |-> "RAW",
   insertDataOption |-> "INSERT_ROWS", values |-> << <<phone>> >>]

\* the append of part_001 names no insertDataOption
AppendRequest001(r, auth, phone) ==
  [req |-> r, auth |-> auth, spreadsheetId |-> SPREADSHEET_ID,
   range |-> <<SHEET_NAME, "!A:A">>, valueInputOption |-> "RAW",
   values |-> << <<phone>> >>]

AppendRequestOf(handler, r, auth, phone) ==
  IF handler = "part_001" THEN AppendRequest001(r, auth, phone)
  ELSE AppendRequest(r, auth, phone)

\* A step of a handler run yields the run's next local state and the calls
\* it issues to the sheet and to the webhook.
Step(rq, reads, appends, posts) ==
  [rq |-> rq, reads |-> reads, appends |-> appends, posts |-> posts]

\* POST from "const webhookUrl = process.env.WEBHOOK_URL" to the await of
\* fetch, or to the early return when the URL is not set.
WebhookStage(r, rq, t) ==
  IF ~Truthy(env.WEBHOOK_URL)
  THEN Step(Respond(rq, LeadReceivedNoWebhook), <<>>, <<>>, <<>>)
  ELSE Step([rq EXCEPT !.pc = "awaitFetch", !.webhookInFlight = TRUE], <<>>, <<>>,
            << [req |-> r, url |-> env.WEBHOOK_URL, method |-> "POST",
                contentType |-> "application/json",
                body |-> JSONStringify(WebhookPayload(rq.body, t))] >>)

\* savePhoneToGoogleSheets returns (true or false): POST waits at
\* "await savePhoneToGoogleSheets(phone)" for its turn
SaveReturned(rq, result) ==
  [rq EXCEPT !.pc = "awaitSave", !.saveReturned = TRUE, !.saveResult = result]

\* savePhoneToGoogleSheets up to its first await (values.get in part_000,
\* values.append in the others), or to the "return false" of the credential
\* branches.
SavePhoneStage_noAwait(r, rq, t) ==
  LET c == CredentialsOf(rq.handler, env)
      called == [rq EXCEPT !.saveCalled = TRUE]
  IN IF Authenticates(c)
     THEN LET w == WebhookStage(r, [called EXCEPT !.appendInFlight = TRUE], t)
          IN Step(w.rq, <<>>,
                  <<AppendRequestOf(rq.handler, r, c.auth, rq.body.phone)>>, w.posts)
     ELSE Step(SaveReturned(called, FALSE), <<>>, <<>>, <<>>)

SavePhoneStage_dedup(r, rq, t) ==
  LET c == CredentialsOf(rq.handler, env)
      called == [rq EXCEPT !.saveCalled = TRUE]
      seen == \E k \in 1..Len(appendLog) : appendLog[k].values = << <<rq.body.phone>> >>
  IN IF ~Authenticates(c) \/ seen
     THEN Step(SaveReturned(called, FALSE), <<>>, <<>>, <<>>)
     ELSE IF rq.handler = "part_000"
     THEN Step([called EXCEPT !.pc = "awaitGet", !.getInFlight = TRUE],
               <<GetRequest(r, c.auth)>>, <<>>, <<>>)
     ELSE Step([called EXCEPT !.pc = "awaitAppend", !.appendInFlight = TRUE], <<>>,
               <<AppendRequestOf(rq.handler, r, c.auth, rq.body.phone)>>, <<>>)

SavePhoneStage(r, rq, t) ==
  LET c == CredentialsOf(rq.handler, env)
      called == [rq EXCEPT !.saveCalled = TRUE]
  IN IF ~Authenticates(c)
     THEN Step(SaveReturned(called, FALSE), <<>>, <<>>, <<>>)
     ELSE IF rq.handler = "part_000"
     THEN Step([called EXCEPT !.pc = "awaitGet", !.getInFlight = TRUE],
               <<GetRequest(r, c.auth)>>, <<>>, <<>>)
     ELSE Step([called EXCEPT !.pc = "awaitAppend", !.appendInFlight = TRUE], <<>>,
               <<AppendRequestOf(rq.handler, r, c.auth, rq.body.phone)>>, <<>>)

\* POST from the line after "await req.json()" to its first await (or to its
\* response): validate, then savePhoneToGoogleSheets when there is a phone,
\* else the webhook stage.
HandleRequest(r, h, b, t) ==
  LET rq == [req[r] EXCEPT !.handler = h, !.body = b]
      v == ValidationOutcome(b)
  IN IF v = "fault" THEN Step(Respond(rq, InternalServerError), <<>>, <<>>, <<>>)
     ELSE IF v = "required" THEN Step(Respond(rq, EmailOrPhoneRequired), <<>>, <<>>, <<>>)
     ELSE IF v = "invalidEmail" THEN Step(Respond(rq, InvalidEmailAddress), <<>>, <<>>, <<>>)
     ELSE IF hasPhone(b.phone) THEN SavePhoneStage(r, rq, t)
     ELSE WebhookStage(r, rq, t)

\* The results of the awaited calls
GetOutcomes == {"ok", "error"}
AppendOutcomes == {"ok", "errorWithResponse", "errorNoResponse"}
FetchOutcomes == {"ok", "non2xx", "networkError"}
TextOutcomes == {"ok", "rejected"}

\* savePhoneToGoogleSheets of part_000 after values.get settles: the append
\* is issued, or the inner catch returns false
AfterGet(r, rq, outcome) ==
  LET got == [rq EXCEPT !.getInFlight = FALSE, !.getOutcome = outcome]
  IN IF outcome = "ok"
     THEN Step([got EXCEPT !.pc = "awaitAppend", !.appendInFlight = TRUE], <<>>,
               <<AppendRequestOf(rq.handler, r, CredentialsOf(rq.handler, env).auth,
                                 rq.body.phone)>>, <<>>)
     ELSE Step(SaveReturned(got, FALSE), <<>>, <<>>, <<>>)

\* savePhoneToGoogleSheets after values.append settles: return true, or the
\* catch block's return false
AfterAppend(rq, outcome) ==
  SaveReturned([rq EXCEPT !.appendInFlight = FALSE,
                          !.appendOutcome = IF outcome = "ok" THEN "ok" ELSE "error"],
               outcome = "ok")

\* POST resumes after "await savePhoneToGoogleSheets(phone)": the result is
\* dropped and the webhook stage runs
AfterSave_stopOnFailure(r, rq, t) ==
  IF rq.saveResult THEN WebhookStage(r, rq, t)
  ELSE Step(Respond(rq, LeadReceived), <<>>, <<>>, <<>>)

AfterSave_rethrow(r, rq, t) ==
  IF rq.saveResult THEN WebhookStage(r, rq, t)
  ELSE Step(Respond(rq, InternalServerError), <<>>, <<>>, <<>>)

AfterSave(r, rq, t) == WebhookStage(r, rq, t)

\* POST after fetch settles: ok, or not ok (then text() is awaited), or the
\* catch of the inner try.
AfterFetch_uncaught(rq, outcome) ==
  IF outcome = "ok"
  THEN Respond([rq EXCEPT !.webhookInFlight = FALSE, !.fetchOutcome = "ok"], LeadReceived)
  ELSE IF outcome = "non2xx"
  THEN [rq EXCEPT !.pc = "awaitText", !.fetchOutcome = "non2xx"]
  ELSE Respond([rq EXCEPT !.webhookInFlight = FALSE, !.fetchOutcome = "networkError"],
               InternalServerError)

AfterFetch(rq, outcome) ==
  IF outcome = "ok"
  THEN Respond([rq EXCEPT !.webhookInFlight = FALSE, !.fetchOutcome = "ok"], LeadReceived)
  ELSE IF outcome = "non2xx"
  THEN [rq EXCEPT !.pc = "awaitText", !.fetchOutcome = "non2xx"]
  ELSE Respond([rq EXCEPT !.webhookInFlight = FALSE, !.fetchOutcome = "networkError"],
               LeadReceived)

\* POST after webhookResponse.text().catch(...) settles
AfterText(rq, outcome) == Respond([rq EXCEPT !.webhookInFlight = FALSE], LeadReceived)

\* ------------------------------------------------------------------ inputs
\* All strings over an alphabet up to a length
Strings(chars, n) == UNION {[1..k -> chars] : k \in 0..n}

ValidEmail == Str(<<"a", "@", "b", ".", "c">>)
MalformedEmail == Str(<<"n", "o", "t", "-", "a", "n">>)
PlainPhone == Str(<<"5", "5", "5">>)
PaddedPhone == Str(<<" ", "5", "\t">>)
BlankPhone == Str(<<"\t", " ", "\\u00a0">>)
Five == Num(<<"5">>)
Zero == Num(<<"0">>)
\* 1e-400 is below half the least double: the number 0
Tiny == Num(<<"1", "e", "-", "4", "0", "0">>)
\* 1e400 is beyond the greatest double: the number Infinity
Huge == Num(<<"1", "e", "4", "0", "0">>)
HugeArray == Arr(<<Huge, Five>>)
\* 1.50 is the number 1.5
Decimal == Num(<<"1", ".", "5", "0">>)
\* 1234567890123456 has 16 digits and is a double
Sixteen ==
  Num(<<"1", "2", "3", "4", "5", "6", "7", "8", "9", "0", "1", "2", "3", "4", "5", "6">>)
\* 0.30000000000000004 is the double next above 0.3
PastThreeTenths ==
  Num(<<"0", ".", "3", "0", "0", "0", "0", "0", "0", "0", "0", "0", "0", "0", "0", "0", "0",
        "0", "4">>)
\* 12345678901234567890 is not a double: the nearest is 12345678901234567168,
\* which Number::toString writes 12345678901234567000
Twenty ==
  Num(<<"1", "2", "3", "4", "5", "6", "7", "8", "9", "0", "1", "2", "3", "4", "5", "6", "7",
        "8", "9", "0">>)
\* 5e-324 is the least positive double
Least == Num(<<"5", "e", "-", "3", "2", "4">>)
\* String(["a@b.c"]) is "a@b.c"
EmailArray == Arr(<<ValidEmail>>)
\* String(["a@b", 0.30000000000000004]) is "a@b,0.30000000000000004"
NumberedEmail == Arr(<<Str(<<"a", "@", "b">>), PastThreeTenths>>)
\* values of an email field that are not strings: String() of them is
\* "", "a@b,c", "a@b.c,", "[object Object]", "true"; the last has no String()
NonStrings ==
  {Arr(<<>>), Arr(<<Str(<<"a", "@", "b">>), Str(<<"c">>)>>), Arr(<<ValidEmail, Null>>),
   JsonObject(<<>>), True,
   JsonObject(<<[key |-> ToStringName, val |-> Five]>>)}
Ann == Str(<<"A", "n", "n">>)
Zip == Str(<<"9", "4">>)
Ad1 == Str(<<"a", "d", "1">>)

SampleEmails == {Undefined, Str(<<>>), ValidEmail, MalformedEmail}
SamplePhones == {Undefined, BlankPhone, PlainPhone, PaddedPhone}
WideEmails ==
  {Undefined, Null, Five, Tiny, Huge, Sixteen, False, EmailArray, NumberedEmail} \cup NonStrings
  \cup {Str(s) : s \in Strings({"a", "@", ".", " ", "\t"}, MaxEmailLen)}
WidePhones ==
  {Undefined, Null, Five, Zero, Tiny, Huge, False, True, Arr(<<>>)}
  \cup {Str(s) : s \in Strings({"5", " ", "\\u00a0"}, MaxPhoneLen)}
OtherValues == {Undefined, Str(<<>>), Ad1}

\* the submissions of the concurrent specification
ConcBodies ==
  { Obj(ValidEmail, PaddedPhone, Undefined, Undefined, Ad1),
    Obj(Undefined, Undefined, Zip, Ann, Undefined) }

\* the submissions of the configuration specification
SampleBodies ==
  {UnparseableBody, NullBody}
  \cup {Obj(e, p, Zip, Ann, Undefined) : e \in SampleEmails \cup {Five, EmailArray},
                                         p \in SamplePhones \cup {Five, Tiny}}

\* the submissions of the input specification: every email with a missing
\* and a blank phone, every phone with the sample emails and the emails that
\* are not strings, every other field with both, and the numbers that are
\* not written as their double is
WideBodies ==
  {Obj(e, p, Undefined, Undefined, Undefined) : e \in WideEmails, p \in {Undefined, BlankPhone}}
  \cup {Obj(e, p, Undefined, Undefined, Undefined) : e \in SampleEmails \cup NonStrings,
                                                     p \in WidePhones}
  \cup {Obj(e, p, z, n, s) : e \in {Undefined, ValidEmail, MalformedEmail}, p \in {Undefined, PaddedPhone},
                             z \in OtherValues \cup {Zero, Tiny, Huge, HugeArray, Decimal},
                             n \in OtherValues \cup {Null, False, Tiny},
                             s \in OtherValues}
  \cup {Obj(ValidEmail, p, z, Undefined, Undefined) :
          p \in {Undefined, PlainPhone}, z \in {Sixteen, PastThreeTenths, Twenty, Least}}
  \cup {Obj(Least, PlainPhone, Undefined, Undefined, Undefined)}

Environment(key, email, privateKey, webhook) ==
  [GOOGLE_SERVICE_ACCOUNT_KEY |-> key, GOOGLE_SERVICE_ACCOUNT_EMAIL |-> email,
   GOOGLE_PRIVATE_KEY |-> privateKey, WEBHOOK_URL |-> webhook]

PairEmail == Str(<<"p", "@", "s", "a">>)
EscapedPrivateKey == Str(<<"P", "\\", "n", "K">>)
WebhookUrl == Str(<<"h", "t", "t", "p", "s", ":", "/", "/", "h">>)

AllEnvs ==
  { Environment(k, e, p, w) :
      k \in {Undefined, Str(<<>>), Str(<<" ">>), Str(MalformedJson), Str(NullJson),
             Str(EmptyObjectJson), Str(NumberJson), Str(TinyEmailJson),
             Str(CredentialsJson)},
      e \in {Undefined, Str(<<>>), Str(<<" ">>), PairEmail},
      p \in {Undefined, Str(<<>>), Str(<<" ">>), EscapedPrivateKey},
      w \in {Undefined, Str(<<>>), WebhookUrl} }

ConcEnvs ==
  { Environment(Undefined, PairEmail, EscapedPrivateKey, WebhookUrl),
    Environment(Undefined, Undefined, Undefined, Undefined) }

SampleEnvs ==
  { Environment(Str(CredentialsJson), Undefined, Undefined, WebhookUrl),
    Environment(Undefined, PairEmail, EscapedPrivateKey, WebhookUrl),
    Environment(Undefined, Undefined, Undefined, Undefined) }

\* ------------------------------------------------------------------ actions
InitWith(envs) ==
  /\ env \in envs
  /\ req = [r \in Requests |-> NewRequest]
  /\ sheet = <<>>
  /\ readLog = <<>>
  /\ appendLog = <<>>
  /\ hookLog = <<>>
  /\ now = 0

\* The calls a step issues are sent; the clock moves when a payload is stamped
Issue(r, s, t) ==
  /\ req' = [req EXCEPT ![r] = s.rq]
  /\ readLog' = readLog \o s.reads
  /\ appendLog' = appendLog \o s.appends
  /\ hookLog' = hookLog \o s.posts
  /\ now' = IF s.posts # <<>> THEN t ELSE now

\* A request arrives at one of the handlers: POST runs up to its first await
\* after req.json(), or to its response
Receive(r, handlers, bodies, times) ==
  /\ req[r].pc = "idle"
  /\ \E h \in handlers : \E b \in bodies : \E t \in {u \in times : u >= now} :
       Issue(r, HandleRequest(r, h, b, t), t)
  /\ UNCHANGED <<env, sheet>>

\* values.get settles (part_000)
GetReturns(r, outcome) ==
  /\ req[r].pc = "awaitGet"
  /\ Issue(r, AfterGet(r, req[r], outcome), now)
  /\ UNCHANGED <<env, sheet>>

\* values.append settles; on success the sheet has the rows of the call
AppendReturns(r, outcome) ==
  /\ req[r].pc = "awaitAppend"
  /\ LET call == appendLog[CHOOSE k \in 1..Len(appendLog) : appendLog[k].req = r]
     IN sheet' = IF outcome = "ok" THEN sheet \o call.values ELSE sheet
  /\ req' = [req EXCEPT ![r] = AfterAppend(req[r], outcome)]
  /\ UNCHANGED <<env, readLog, appendLog, hookLog, now>>

\* POST resumes after "await savePhoneToGoogleSheets(phone)"
SaveReturns(r, times) ==
  /\ req[r].pc = "awaitSave"
  /\ \E t \in {u \in times : u >= now} : Issue(r, AfterSave(r, req[r], t), t)
  /\ UNCHANGED <<env, sheet>>

\* fetch settles
FetchReturns(r, outcome) ==
  /\ req[r].pc = "awaitFetch"
  /\ req' = [req EXCEPT ![r] = AfterFetch(req[r], outcome)]
  /\ UNCHANGED <<env, sheet, readLog, appendLog, hookLog, now>>

\* webhookResponse.text() settles
TextReturns(r, outcome) ==
  /\ req[r].pc = "awaitText"
  /\ req' = [req EXCEPT ![r] = AfterText(req[r], outcome)]
  /\ UNCHANGED <<env, sheet, readLog, appendLog, hookLog, now>>

NextWith(rs, handlers, bodies, times) ==
  \E r \in rs :
    \/ Receive(r, handlers, bodies, times)
    \/ \E o \in GetOutcomes : GetReturns(r, o)
    \/ \E o \in AppendOutcomes : AppendReturns(r, o)
    \/ SaveReturns(r, times)
    \/ \E o \in FetchOutcomes : FetchReturns(r, o)
    \/ \E o \in TextOutcomes : TextReturns(r, o)

\* Concurrent requests to route.ts and part_000, within one tick of the clock
Init == InitWith(ConcEnvs)
Next == NextWith(Requests, {"route", "part_000"}, ConcBodies, {0})
Spec == Init /\ [][Next]_vars

\* One request under every configuration
InitEnv == InitWith(AllEnvs)
NextEnv == NextWith({1}, Handlers, SampleBodies, Times)
SpecEnv == InitEnv /\ [][NextEnv]_vars

\* One request over every submission
InitWide == InitWith(SampleEnvs)
NextWide == NextWith({1}, Handlers, WideBodies, Times)
SpecWide == InitWide /\ [][NextWide]_vars


\* ------------------------------------------------------------- vocabulary
Done(r) == req[r].pc = "done"
Started(r) == req[r].pc # "idle"
ReadsOf(r) == SelectSeq(readLog, LAMBDA c : c.req = r)
AppendsOf(r) == SelectSeq(appendLog, LAMBDA c : c.req = r)
PostsOf(r) == SelectSeq(hookLog, LAMBDA c : c.req = r)

\* no email: the field is missing, null or the empty string
NoEmail(email) == email \in {Undefined, Null, Str(<<>>)}
\* phone absent, empty or whitespace-only
BlankPhoneValue(phone) ==
  \/ phone \in {Undefined, Null}
  \/ phone.t = "string" /\ \A k \in 1..Len(phone.v) : phone.v[k] \in WhiteSpace
\* a string with a character other than white space
PresentPhone(phone) ==
  phone.t = "string" /\ \E k \in 1..Len(phone.v) : phone.v[k] \notin WhiteSpace
\* a string of the shape local@domain.tld
ValidEmailValue(email) == email.t = "string" /\ EmailRegexTest(email.v)
\* the submission passes validation
PassesValidation(b) ==
  /\ b.kind = "object"
  /\ ~hasEmailThrows(b.email)
  /\ ~hasPhoneThrows(b.phone)
  /\ PresentPhone(b.phone) \/ ValidEmailValue(b.email)
\* an environment variable is set when it holds a non-empty string (the
\* handler reports an empty one as "not set" / "not configured")
IsSet(x) == x.t = "string" /\ x.v # <<>>
Fields == {"email", "zip", "name", "phone", "source"}
StatusOf(r) == {req[r].resp[k].status : k \in 1..Len(req[r].resp)}
\* a call to the sheet (values.get or values.append) is in flight
SheetInFlight(r) == req[r].getInFlight \/ req[r].appendInFlight
\* the request is past "await savePhoneToGoogleSheets(phone)"
PastSave(r) == req[r].pc \in {"awaitFetch", "awaitText", "done"}

\* C1: a non-empty email that fails the pattern, with the phone absent or
\* blank, is answered 400 "Invalid email address".
C1_InvalidEmailAnswered ==
  \A r \in Requests :
    LET b == req[r].body
    IN (Done(r) /\ b.kind = "object" /\ b.email.t = "string" /\ b.email.v # <<>>
        /\ ~EmailRegexTest(b.email.v) /\ BlankPhoneValue(b.phone))
       => req[r].resp = <<InvalidEmailAddress>>

\* C2: with no email and a phone that is absent, empty or blank the answer is
\* 400 "Email or phone number is required", and neither the sheet append nor
\* the webhook dispatch is started.
C2_MissingBothRejected ==
  \A r \in Requests :
    LET b == req[r].body
    IN (Started(r) /\ b.kind = "object" /\ NoEmail(b.email) /\ BlankPhoneValue(b.phone))
       => /\ Done(r)
          /\ req[r].resp = <<EmailOrPhoneRequired>>
          /\ ~req[r].saveCalled
          /\ ReadsOf(r) = <<>>
          /\ AppendsOf(r) = <<>>
          /\ PostsOf(r) = <<>>

C2_Witness ==
  /\ Done(1)
  /\ req[1].body.email = Undefined
  /\ req[1].body.phone = BlankPhone
  /\ req[1].resp = <<EmailOrPhoneRequired>>
  /\ hookLog = <<>> /\ appendLog = <<>> /\ readLog = <<>>

\* C3: a submission that passes validation is answered 200 success whatever
\* the side effects did; the message tells whether the webhook URL is set.
C3_ValidatedAlwaysSucceeds ==
  \A r \in Requests :
    (Done(r) /\ PassesValidation(req[r].body))
    => req[r].resp = << IF IsSet(env.WEBHOOK_URL) THEN LeadReceived
                        ELSE LeadReceivedNoWebhook >>

C3_Witness ==
  /\ Done(1)
  /\ req[1].appendOutcome = "error"
  /\ req[1].fetchOutcome = "networkError"
  /\ req[1].resp = <<LeadReceived>>

\* C4: for a validated submission the webhook stage runs whatever the sheet
\* append did: one POST to the URL when it is set (never a second one), none
\* when it is not.
C4_WebhookOncePerRequest ==
  \A r \in Requests :
    PassesValidation(req[r].body)
    => /\ Len(PostsOf(r)) <= 1
       /\ \A k \in 1..Len(PostsOf(r)) :
            PostsOf(r)[k].method = "POST" /\ PostsOf(r)[k].url = env.WEBHOOK_URL
       /\ PastSave(r) => Len(PostsOf(r)) = IF IsSet(env.WEBHOOK_URL) THEN 1 ELSE 0

C4_Witness ==
  /\ Done(1)
  /\ req[1].saveReturned /\ ~req[1].saveResult
  /\ req[1].appendOutcome = "error"
  /\ req[1].fetchOutcome = "non2xx"
  /\ Len(PostsOf(1)) = 1

\* the credentials of route.ts resolve: the JSON blob is set and parses to a
\* value other than null, or it is not set and the email and private key are
\* both set
CredentialsResolve ==
  IF IsSet(env.GOOGLE_SERVICE_ACCOUNT_KEY)
  THEN LET parsed == JSONParse(env.GOOGLE_SERVICE_ACCOUNT_KEY.v)
       IN ~parsed.throws /\ parsed.value.t # "null"
  ELSE IsSet(env.GOOGLE_SERVICE_ACCOUNT_EMAIL) /\ IsSet(env.GOOGLE_PRIVATE_KEY)

\* C5 as stated: for a validated submission an append is attempted if and
\* only if the phone is non-empty after trimming, and the appended row is
\* the submitted phone.
C5_AppendIffPhone ==
  \A r \in Requests :
    (Done(r) /\ req[r].handler = "route" /\ PassesValidation(req[r].body))
    => /\ (AppendsOf(r) # <<>>) <=> PresentPhone(req[r].body.phone)
       /\ \A k \in 1..Len(AppendsOf(r)) :
            AppendsOf(r)[k].values = << <<req[r].body.phone>> >>

\* C5 as amended: in route.ts savePhoneToGoogleSheets is entered if and only
\* if the phone is non-empty after trimming; it issues its one append if and
\* only if the credentials resolve as well; the row of an issued append is
\* one cell, the submitted phone string, not trimmed.
C5_AppendIffPhoneAndCredentials ==
  \A r \in Requests :
    (Started(r) /\ req[r].handler = "route" /\ PassesValidation(req[r].body))
    => /\ req[r].saveCalled <=> PresentPhone(req[r].body.phone)
       /\ Len(AppendsOf(r)) =
            IF PresentPhone(req[r].body.phone) /\ CredentialsResolve THEN 1 ELSE 0
       /\ \A k \in 1..Len(AppendsOf(r)) :
            AppendsOf(r)[k].values = << <<req[r].body.phone>> >>

C5_Witness ==
  /\ Done(1)
  /\ req[1].handler = "route"
  /\ req[1].body.email = Str(<<>>)
  /\ req[1].body.phone = Str(<<" ", "5">>)
  /\ Len(appendLog) = 1
  /\ appendLog[1].values = << <<Str(<<" ", "5">>)>> >>
  /\ sheet = << <<Str(<<" ", "5">>)>> >>

\* C6 as stated: every payload field is the submitted value, or null when the
\* field was not supplied.
C6_PayloadIsSubmission ==
  \A k \in 1..Len(hookLog) :
    LET b == req[hookLog[k].req].body
        p == hookLog[k].body
    IN /\ \A f \in Fields : p[f] = IF b[f] = Undefined THEN Null ELSE b[f]
       /\ p.timestamp \in Times

\* C6 as amended: every payload field is the submitted value, or null when
\* the field was not supplied or was supplied as the empty string (or another
\* falsy value: null, false, 0 or a number that rounds to 0); a non-empty
\* string is passed unchanged, valid or not; a value that is not a string is
\* passed as JSON writes it: a number beyond the doubles (1e400) as null,
\* also inside an array, any other number as its double (1.50 as 1.5,
\* 12345678901234567890 as 12345678901234567000).
C6_PayloadIsSubmissionOrNull ==
  \A k \in 1..Len(hookLog) :
    LET b == req[hookLog[k].req].body
        p == hookLog[k].body
    IN /\ \A f \in Fields :
            p[f] = CASE b[f] \in {Undefined, Null, Str(<<>>), False, Zero, Tiny} -> Null
                     [] b[f] = Huge -> Null
                     [] b[f] = HugeArray -> Arr(<<Null, Five>>)
                     [] b[f] = Decimal -> Num(<<"1", ".", "5">>)
                     [] b[f] = Twenty -> Num(SubSeq(Twenty.v, 1, 17) \o <<"0", "0", "0">>)
                     [] OTHER -> b[f]
       /\ p.timestamp \in Times
       /\ DOMAIN p = Fields \cup {"timestamp"}

C6_Witness ==
  /\ Len(hookLog) = 1
  /\ req[1].body = Obj(MalformedEmail, PaddedPhone, HugeArray, Tiny, Ad1)
  /\ hookLog[1].body.email = MalformedEmail
  /\ hookLog[1].body.phone = PaddedPhone
  /\ hookLog[1].body.zip = Arr(<<Null, Five>>)
  /\ hookLog[1].body.name = Null
  /\ hookLog[1].body.source = Ad1

\* the email / private key pair is configured and the JSON blob is not: the
\* credentials every handler accepts
PairConfigured ==
  /\ ~IsSet(env.GOOGLE_SERVICE_ACCOUNT_KEY)
  /\ env.GOOGLE_SERVICE_ACCOUNT_EMAIL = PairEmail
  /\ env.GOOGLE_PRIVATE_KEY = EscapedPrivateKey

\* C7: requests are independent and not deduplicated: every request with a
\* phone whose calls to the sheet succeed adds its row, every request that
\* reaches the webhook posts once, so N requests with the same phone
\* submission whose calls succeed leave N rows and N posts; and two requests
\* with the same submission get the same response.
C7_NoDeduplication ==
  LET appended(r) == /\ req[r].pc \in {"awaitSave", "awaitFetch", "awaitText", "done"}
                     /\ PassesValidation(req[r].body)
                     /\ PresentPhone(req[r].body.phone)
                     /\ PairConfigured
                     /\ req[r].getOutcome # "error"
                     /\ req[r].appendOutcome # "error"
      posted(r) == /\ PastSave(r)
                   /\ PassesValidation(req[r].body)
                   /\ IsSet(env.WEBHOOK_URL)
  IN /\ Len(sheet) = Cardinality({r \in Requests : appended(r)})
     /\ \A r \in Requests :
          appended(r) => \E k \in 1..Len(sheet) : sheet[k] = <<req[r].body.phone>>
     /\ Len(hookLog) = Cardinality({r \in Requests : posted(r)})
     /\ (\A r \in Requests : Done(r) /\ appended(r) /\ posted(r)
                             /\ req[r].body = req[1].body)
        => Len(sheet) = MaxRequests /\ Len(hookLog) = MaxRequests
     /\ \A r1 \in Requests : \A r2 \in Requests :
          (Done(r1) /\ Done(r2) /\ req[r1].body = req[r2].body)
          => req[r1].resp = req[r2].resp

C7_Witness ==
  /\ \A r \in Requests : /\ Done(r)
                         /\ req[r].body = Obj(ValidEmail, PaddedPhone, Undefined, Undefined, Ad1)
                         /\ req[r].appendOutcome = "ok"
                         /\ req[r].fetchOutcome = "ok"
  /\ req[1].handler # req[2].handler
  /\ Len(sheet) = MaxRequests
  /\ Len(hookLog) = MaxRequests

\* C8: a body that does not parse is answered 500 "Internal server error";
\* a request answered 500 has started neither side effect, so no failure of
\* a side effect yields a 500.
C8_FaultBeforeSideEffects ==
  \A r \in Requests :
    /\ (Done(r) /\ req[r].body.kind = "unparseable") => req[r].resp = <<InternalServerError>>
    /\ 500 \in StatusOf(r)
       => /\ req[r].resp = <<InternalServerError>>
          /\ ~req[r].saveCalled
          /\ ReadsOf(r) = <<>> /\ AppendsOf(r) = <<>> /\ PostsOf(r) = <<>>
          /\ req[r].getOutcome = "none" /\ req[r].appendOutcome = "none"
          /\ req[r].fetchOutcome = "none"

C8_Witness ==
  /\ Done(1)
  /\ req[1].body = UnparseableBody
  /\ req[1].resp = <<InternalServerError>>
  /\ appendLog = <<>> /\ hookLog = <<>>

\* C9: the response comes after every started side effect has settled, and
\* the webhook POST is not issued before the sheet append has settled: no
\* request has both in flight, or a response with one in flight.
C9_SequentialSideEffects ==
  \A r \in Requests :
    /\ ~(SheetInFlight(r) /\ req[r].webhookInFlight)
    /\ req[r].resp # <<>> => ~SheetInFlight(r) /\ ~req[r].webhookInFlight
    /\ PostsOf(r) # <<>> => /\ ~SheetInFlight(r)
                            /\ req[r].saveCalled => req[r].saveReturned
    /\ req[r].getInFlight <=> req[r].pc = "awaitGet"
    /\ req[r].appendInFlight <=> req[r].pc = "awaitAppend"
    /\ req[r].webhookInFlight <=> req[r].pc \in {"awaitFetch", "awaitText"}

C9_Witness ==
  /\ Done(1)
  /\ req[1].appendOutcome = "ok"
  /\ req[1].fetchOutcome = "non2xx"
  /\ req[2].pc = "awaitAppend"
  /\ req[1].resp = <<LeadReceived>>

\* C10: in savePhoneToGoogleSheets of route.ts a set GOOGLE_SERVICE_ACCOUNT_KEY
\* alone decides: the append is authenticated with it if it parses (to a
\* value other than null) and is skipped with result false if it does not,
\* whatever the email / private key pair is; the pair is used only when the
\* blob is not set; with neither the append is skipped. The function always
\* returns and the request answers 200.
C10_JsonBlobTakesPrecedence ==
  \A r \in Requests :
    (req[r].saveCalled /\ req[r].handler = "route")
    => LET key == env.GOOGLE_SERVICE_ACCOUNT_KEY
           skipped == AppendsOf(r) = <<>> /\ req[r].saveReturned /\ ~req[r].saveResult
           usedWith(auth) == Len(AppendsOf(r)) = 1 /\ AppendsOf(r)[1].auth = auth
       IN /\ (IsSet(key) /\ key.v = CredentialsJson)
             => usedWith(JWT(Str(JsonClientEmail), Str(JsonPrivateKey)))
          /\ (IsSet(key) /\ key.v \in {EmptyObjectJson, NumberJson})
             => usedWith(JWT(Undefined, Undefined))
          /\ (IsSet(key) /\ key.v = TinyEmailJson)
             => usedWith(JWT(Tiny, Str(<<"k">>)))
          /\ (IsSet(key) /\ key.v \in {MalformedJson, NullJson, <<" ">>}) => skipped
          /\ (~IsSet(key) /\ IsSet(env.GOOGLE_SERVICE_ACCOUNT_EMAIL)
                /\ IsSet(env.GOOGLE_PRIVATE_KEY))
             => usedWith(JWT(env.GOOGLE_SERVICE_ACCOUNT_EMAIL,
                             IF env.GOOGLE_PRIVATE_KEY = EscapedPrivateKey
                             THEN Str(<<"P", "\n", "K">>) ELSE env.GOOGLE_PRIVATE_KEY))
          /\ (~IsSet(key) /\ ~(IsSet(env.GOOGLE_SERVICE_ACCOUNT_EMAIL)
                /\ IsSet(env.GOOGLE_PRIVATE_KEY)))
             => skipped
          /\ req[r].pc \in {"awaitAppend", "awaitSave"} \/ PastSave(r)
          /\ Done(r) => req[r].saveReturned /\ StatusOf(r) = {200}

C10_Witness ==
  /\ Done(1)
  /\ req[1].handler = "route"
  /\ req[1].saveCalled /\ req[1].saveReturned /\ ~req[1].saveResult
  /\ env.GOOGLE_SERVICE_ACCOUNT_KEY = Str(MalformedJson)
  /\ env.GOOGLE_SERVICE_ACCOUNT_EMAIL = PairEmail
  /\ env.GOOGLE_PRIVATE_KEY = EscapedPrivateKey
  /\ appendLog = <<>>
  /\ StatusOf(1) = {200}

====
